---- MODULE Spec2Model ----
(***************************************************************************)
(* A model of facemesh/src/box.ts: the bounding-box helpers of the         *)
(* facemesh pipeline (createBox, disposeBox, scaleBoxCoordinates,          *)
(* getBoxSize, getBoxCenter, cutBoxFromImageAndResize, enlargeBox).        *)
(*                                                                         *)
(* Tensors live in a heap of cells; a cell records its value, its shape,   *)
(* whether it is still live (not disposed) and whether box.ts allocated it *)
(* (byCore) or the caller did.  Numbers are exact rationals <<n, d>> in    *)
(* lowest terms with d > 0: the rounding of float32 is not modelled.       *)
(* A rank-2 tensor value is a sequence of rows.                            *)
(***************************************************************************)
EXTENDS Integers, Sequences, FiniteSets

VARIABLES heap, boxes, lineage, last, calls, made

vars == <<heap, boxes, lineage, last, calls, made>>

\* null / undefined
NULL == 0

\* The number of steps (calls into box.ts, Boxes built by hand) of a behaviour.
MaxCalls == 3
\* The number of Boxes the callers make from buffers of their own.
MaxBoxes == 1

-----------------------------------------------------------------------------
(* Numbers *)

Abs(x) == IF x < 0 THEN -x ELSE x

RECURSIVE GCD(_, _)
GCD(a, b) == IF b = 0 THEN a ELSE GCD(b, a % b)

Rat(n, d) ==
  LET s == IF d < 0 THEN -1 ELSE 1
      g == GCD(Abs(n), Abs(d))
  IN  <<(s * n) \div g, (s * d) \div g>>

Num(n) == <<n, 1>>

RAdd(a, b) == Rat(a[1] * b[2] + b[1] * a[2], a[2] * b[2])
RSub(a, b) == Rat(a[1] * b[2] - b[1] * a[2], a[2] * b[2])
RMul(a, b) == Rat(a[1] * b[1], a[2] * b[2])
RDiv(a, b) == Rat(a[1] * b[2], a[2] * b[1])
RAbs(a) == <<Abs(a[1]), a[2]>>

-----------------------------------------------------------------------------
(* Rank-2 tensor values *)

Rows(m) == Len(m)
Cols(m) == IF Len(m) = 0 THEN 0 ELSE Len(m[1])

\* tf.slice(m, begin, size) with 0-based begin and -1 meaning "to the end"
Slice(m, begin, size) ==
  LET nr == IF size[1] = -1 THEN Rows(m) - begin[1] ELSE size[1]
      nc == IF size[2] = -1 THEN Cols(m) - begin[2] ELSE size[2]
  IN  [i \in 1..nr |-> [j \in 1..nc |-> m[begin[1] + i][begin[2] + j]]]

RECURSIVE ConcatRows(_)
ConcatRows(ts) == IF ts = <<>> THEN <<>> ELSE Head(ts) \o ConcatRows(Tail(ts))

RECURSIVE ConcatCols(_, _)
ConcatCols(ts, i) == IF ts = <<>> THEN <<>> ELSE Head(ts)[i] \o ConcatCols(Tail(ts), i)

\* tf.concat2d(ts, axis)
Concat2d(ts, axis) ==
  IF axis = 0 THEN ConcatRows(ts)
  ELSE [i \in 1..Rows(ts[1]) |-> ConcatCols(ts, i)]

\* t.transpose()
Transpose(m) == [j \in 1..Cols(m) |-> [i \in 1..Rows(m) |-> m[i][j]]]

\* t.dataSync(): the values in row-major order
RECURSIVE DataSync(_)
DataSync(m) == IF m = <<>> THEN <<>> ELSE Head(m) \o DataSync(Tail(m))

\* tf.mul(m, v) and tf.div(m, v) of a [r, c] tensor with a length-c vector,
\* broadcast over the rows
MulVec(m, v) == [i \in 1..Rows(m) |-> [j \in 1..Cols(m) |-> RMul(m[i][j], v[j])]]
DivVec(m, v) == [i \in 1..Rows(m) |-> [j \in 1..Cols(m) |-> RDiv(m[i][j], v[j])]]
\* tf.sub(v, m) and tf.add(v, m) of a length-c vector with a [r, c] tensor
SubVecMat(v, m) == [i \in 1..Rows(m) |-> [j \in 1..Cols(m) |-> RSub(v[j], m[i][j])]]
AddVecMat(v, m) == [i \in 1..Rows(m) |-> [j \in 1..Cols(m) |-> RAdd(v[j], m[i][j])]]
\* tf.div(m, s) and tf.mul(m, s) of a tensor with a scalar
DivScalar(m, s) == [i \in 1..Rows(m) |-> [j \in 1..Cols(m) |-> RDiv(m[i][j], s)]]
MulScalar(m, s) == [i \in 1..Rows(m) |-> [j \in 1..Cols(m) |-> RMul(m[i][j], s)]]

Shape2(m) == <<Rows(m), Cols(m)>>

-----------------------------------------------------------------------------
(* The heap of tensors and the bookkeeping of one call *)

Cell(val, shape, byCore) == [val |-> val, shape |-> shape, live |-> TRUE, byCore |-> byCore]

\* the state of a call in progress: the heap, what the call has allocated and
\* disposed so far, and whether it has thrown
Enter(h) == [heap |-> h, allocd |-> {}, disposed |-> {}, threw |-> FALSE, crops |-> <<>>]

NewId(m) == Len(m.heap) + 1

Alloc(m, val) ==
  [m EXCEPT !.heap = Append(@, Cell(val, Shape2(val), TRUE)),
            !.allocd = @ \cup {Len(m.heap) + 1}]

Throw(m) == [m EXCEPT !.threw = TRUE]

\* a tensor an op can read: present and not disposed
Usable(m, id) == id # NULL /\ m.heap[id].live

Val(m, id) == m.heap[id].val

\* t.dispose() on each tensor of ids
DisposeAll(m, ids) ==
  [m EXCEPT !.heap = [i \in DOMAIN @ |-> IF i \in ids THEN [@[i] EXCEPT !.live = FALSE] ELSE @[i]],
            !.disposed = @ \cup ids]

\* a tidy that disposes every live tensor but those of the returned value,
\* the caller's included
TidyEnd_DisposesInputs(m, keep) ==
  DisposeAll(m, {i \in DOMAIN m.heap : m.heap[i].live} \ keep)

\* the end of a tf.tidy scope: every tensor allocated in the scope is disposed
\* except those of the returned value (none when the function threw)
TidyEnd(m, keep) == DisposeAll(m, m.allocd \ keep)

-----------------------------------------------------------------------------
(* box.ts *)

Box(se, sp, ep) == [startEndTensor |-> se, startPoint |-> sp, endPoint |-> ep]

\* A Box argument or result that may be null is a sequence of at most one Box.
NoBox == <<>>

\* a start slice that begins one column late
StartOf_OneOff(se) == Slice(se, <<0, 1>>, <<-1, 2>>)

\* tf.slice(startEndTensor, [0, 0], [-1, 2])
StartOf(se) == Slice(se, <<0, 0>>, <<-1, 2>>)
\* tf.slice(startEndTensor, [0, 2], [-1, 2])
EndOf(se) == Slice(se, <<0, 2>>, <<-1, 2>>)

\* a slice of two columns from column c can be taken from tensor id
CanSlice(m, id, c, n) == Usable(m, id) /\ c + n <= Cols(Val(m, id))

\* createBox(startEndTensor, startPoint?, endPoint?) called in context m:
\* the fields given are used as they are, the others are sliced from
\* startEndTensor.  The result is [m, box]; box is NoBox when a slice threw.
createBox(m, startEndTensor, startPoint, endPoint) ==
  LET m1 == IF startPoint # NULL THEN m
            ELSE IF CanSlice(m, startEndTensor, 0, 2)
                 THEN Alloc(m, StartOf(Val(m, startEndTensor)))
                 ELSE Throw(m)
      sp == IF startPoint # NULL THEN startPoint ELSE NewId(m)
      m2 == IF m1.threw \/ endPoint # NULL THEN m1
            ELSE IF CanSlice(m1, startEndTensor, 2, 2)
                 THEN Alloc(m1, EndOf(Val(m1, startEndTensor)))
                 ELSE Throw(m1)
      ep == IF endPoint # NULL THEN endPoint ELSE NewId(m1)
  IN  [m |-> m2, box |-> IF m2.threw THEN NoBox ELSE <<Box(startEndTensor, sp, ep)>>]

\* disposeBox(box), box possibly null
disposeBox(m, box) ==
  IF box # NoBox /\ box[1].startPoint # NULL
  THEN IF box[1].startEndTensor = NULL THEN Throw(m)
       ELSE LET m1 == DisposeAll(m, {box[1].startEndTensor})
                m2 == DisposeAll(m1, {box[1].startPoint})
            IN  IF box[1].endPoint = NULL THEN Throw(m2)
                ELSE DisposeAll(m2, {box[1].endPoint})
  ELSE m

\* a scaling that multiplies both axes by the first factor
ScaledPoint_FirstFactorOnly(p, factor) == MulVec(p, <<factor[1], factor[1]>>)

\* tf.mul(point, factor)
ScaledPoint(p, factor) == MulVec(p, factor)

\* a concatenation that puts the end point first
PointsConcat_Swapped(newStart, newEnd) == Concat2d(<<newEnd, newStart>>, 1)

\* tf.concat2d([newStart, newEnd], 1)
PointsConcat(newStart, newEnd) == Concat2d(<<newStart, newEnd>>, 1)

\* scaleBoxCoordinates(box, factor); the result is [m, box]
scaleBoxCoordinates(m, box, factor) ==
  LET newStart == NewId(m)
      m1 == IF Usable(m, box.startPoint)
            THEN Alloc(m, ScaledPoint(Val(m, box.startPoint), factor))
            ELSE Throw(m)
      newEnd == NewId(m1)
      m2 == IF m1.threw THEN m1
            ELSE IF Usable(m1, box.endPoint)
                 THEN Alloc(m1, ScaledPoint(Val(m1, box.endPoint), factor))
                 ELSE Throw(m1)
      cat == NewId(m2)
      m3 == IF m2.threw THEN m2
            ELSE Alloc(m2, PointsConcat(Val(m2, newStart), Val(m2, newEnd)))
  IN  IF m3.threw THEN [m |-> m3, box |-> NoBox]
      ELSE createBox(m3, cat, NULL, NULL)

\* a size that is the signed difference start - end
getBoxSize_Signed(box) ==
  << RSub(box.startPoint[1], box.endPoint[1]),
     RSub(box.startPoint[2], box.endPoint[2]) >>

\* getBoxSize(box) on host-side coordinate pairs
getBoxSize(box) ==
  << RAbs(RSub(box.endPoint[1], box.startPoint[1])),
     RAbs(RSub(box.endPoint[2], box.startPoint[2])) >>

\* a center that forgets to halve the extent
getBoxCenter_NoHalf(box) ==
  << RAdd(box.startPoint[1], RSub(box.endPoint[1], box.startPoint[1])),
     RAdd(box.startPoint[2], RSub(box.endPoint[2], box.startPoint[2])) >>

\* getBoxCenter(box) on host-side coordinate pairs
getBoxCenter(box) ==
  << RAdd(box.startPoint[1], RDiv(RSub(box.endPoint[1], box.startPoint[1]), Num(2))),
     RAdd(box.startPoint[2], RDiv(RSub(box.endPoint[2], box.startPoint[2]), Num(2))) >>

\* the four column slices in the stored order x0, y0, x1, y1
YxyxParts_NoReorder(xyxy) ==
  << Slice(xyxy, <<0, 0>>, <<-1, 1>>), Slice(xyxy, <<0, 1>>, <<-1, 1>>),
     Slice(xyxy, <<0, 2>>, <<-1, 1>>), Slice(xyxy, <<0, 3>>, <<-1, 1>>) >>

\* the four column slices of xyxy in the order the crop primitive wants,
\* as the list handed to concat2d
YxyxParts(xyxy) ==
  << Slice(xyxy, <<0, 1>>, <<-1, 1>>), Slice(xyxy, <<0, 0>>, <<-1, 1>>),
     Slice(xyxy, <<0, 3>>, <<-1, 1>>), Slice(xyxy, <<0, 2>>, <<-1, 1>>) >>

\* tf.div(transposed, [height, width, height, width])
RoundedCoords(transposed, height, width) ==
  DivVec(transposed, <<Num(height), Num(width), Num(height), Num(width)>>)

\* tf.image.cropAndResize(image, rects, boxInd, cropSize) accepts its arguments
CropArgsOk(m, image, rects, boxInd) ==
  /\ Usable(m, image)
  /\ Len(m.heap[image].shape) = 4
  /\ Cols(rects) = 4
  /\ Rows(rects) = Len(boxInd)
  /\ \A k \in 1..Len(boxInd) : boxInd[k] \in 0..(m.heap[image].shape[1] - 1)

\* tf.image.cropAndResize: allocates the crops [numBoxes, cropHeight, cropWidth,
\* channels] (the pixels are not modelled) and logs the invocation
CropAndResize(m, image, rects, boxInd, cropSize) ==
  [m EXCEPT !.heap = Append(@, Cell(<<>>, <<Rows(rects), cropSize[1], cropSize[2],
                                           m.heap[image].shape[4]>>, TRUE)),
            !.allocd = @ \cup {Len(m.heap) + 1},
            !.crops = Append(@, [image |-> image, rects |-> rects, boxInd |-> boxInd,
                                 cropSize |-> cropSize, result |-> Len(m.heap) + 1])]

\* the body of the tidy of cutBoxFromImageAndResize; the result is [m, ret]
CutBody(m, xyxy, image, height, width, cropSize) ==
  IF ~CanSlice(m, xyxy, 0, 4) THEN [m |-> Throw(m), ret |-> NULL]
  ELSE
  LET parts == YxyxParts(Val(m, xyxy))
      m1 == Alloc(Alloc(Alloc(Alloc(m, parts[1]), parts[2]), parts[3]), parts[4])
      yxyx == NewId(m1)
      m2 == Alloc(m1, Concat2d(parts, 0))
      transposed == NewId(m2)
      m3 == Alloc(m2, Transpose(Val(m2, yxyx)))
      roundedCoords == NewId(m3)
  IN  IF Cols(Val(m3, transposed)) # 4 THEN [m |-> Throw(m3), ret |-> NULL]
      ELSE
      LET m4 == Alloc(m3, RoundedCoords(Val(m3, transposed), height, width))
          ret == NewId(m4)
      IN  IF CropArgsOk(m4, image, Val(m4, roundedCoords), <<0>>)
          THEN [m |-> CropAndResize(m4, image, Val(m4, roundedCoords), <<0>>, cropSize),
                ret |-> ret]
          ELSE [m |-> Throw(m4), ret |-> NULL]

\* cutBoxFromImageAndResize(box, image, cropSize); the result is [m, ret]
cutBoxFromImageAndResize(m, box, image, cropSize) ==
  LET height == m.heap[image].shape[2]
      width == m.heap[image].shape[3]
      xyxy == box.startEndTensor
      r == CutBody(m, xyxy, image, height, width, cropSize)
  IN  [m |-> TidyEnd(r.m, IF r.ret = NULL THEN {} ELSE {r.ret}), ret |-> r.ret]

\* tf.mul(tf.div(size, 2), factor)
HalfSize(size) == DivScalar(size, Num(2))
NewSize(half, factor) == MulScalar(half, factor)

\* the body of the tidy of enlargeBox; the result is [m, box]
EnlargeBody(m, box, factor) ==
  IF ~(Usable(m, box.startPoint) /\ Usable(m, box.endPoint))
  THEN [m |-> Throw(m), box |-> NoBox]
  ELSE
  LET boxCPU == [startPoint |-> DataSync(Val(m, box.startPoint)),
                 endPoint |-> DataSync(Val(m, box.endPoint))]
      center == getBoxCenter(boxCPU)
      size == NewId(m)
      m1 == Alloc(m, <<getBoxSize(boxCPU)>>)
      half == NewId(m1)
      m2 == Alloc(m1, HalfSize(Val(m1, size)))
      newSize == NewId(m2)
      m3 == Alloc(m2, NewSize(Val(m2, half), factor))
      newStart == NewId(m3)
      m4 == Alloc(m3, SubVecMat(center, Val(m3, newSize)))
      newEnd == NewId(m4)
      m5 == Alloc(m4, AddVecMat(center, Val(m4, newSize)))
      cat == NewId(m5)
      m6 == Alloc(m5, PointsConcat(Val(m5, newStart), Val(m5, newEnd)))
  IN  createBox(m6, cat, newStart, newEnd)

\* the Boxes of a (possibly null) Box result
BoxSet(box) == IF box = NoBox THEN {} ELSE {box[1]}

\* the tensors of a (possibly null) Box
BoxTensors(box) ==
  IF box = NoBox THEN {}
  ELSE {box[1].startEndTensor, box[1].startPoint, box[1].endPoint} \ {NULL}

\* the default value of enlargeBox's factor parameter
DefaultFactor == Rat(3, 2)

\* an enlargeBox that disposes the Box it was given
enlargeBox_DisposesInput(m, box, factor) ==
  LET r == EnlargeBody(m, box, IF factor = <<>> THEN DefaultFactor ELSE factor[1])
  IN  [m |-> DisposeAll(TidyEnd(r.m, BoxTensors(r.box)), BoxTensors(<<box>>)),
       box |-> r.box]

\* enlargeBox(box, factor = 1.5); the result is [m, box].  factor is <<>>
\* when the caller leaves it out and <<f>> otherwise.
enlargeBox(m, box, factor) ==
  LET r == EnlargeBody(m, box, IF factor = <<>> THEN DefaultFactor ELSE factor[1])
  IN  [m |-> TidyEnd(r.m, BoxTensors(r.box)), box |-> r.box]

-----------------------------------------------------------------------------
(* The callers of box.ts *)

\* a row of integers as a [1, n] tensor value
Row(xs) == << [j \in 1..Len(xs) |-> Num(xs[j])] >>

\* the combined buffers [[x0, y0, x1, y1]] callers hand to createBox
Combineds == { <<1, 2, 3, 4>>, <<10, 20, 30, 50>>, <<3, 1, 1, 4>> }
\* the explicit start and end buffers callers hand to createBox
Starts == { <<1, 2>> }
Ends == { <<3, 4>> }
\* the per-axis factors handed to scaleBoxCoordinates
ScaleFactors == { <<Num(2), Num(2)>>, <<Rat(1, 2), Num(3)>>, <<Num(-1), Num(1)>> }
\* the factors handed to enlargeBox; <<>> leaves the factor out
EnlargeFactors == { <<>>, <<Num(2)>>, <<Num(0)>>, <<Num(-1)>> }
\* the images [1, height, width, channels] and the crop sizes
ImageShapes == { <<1, 100, 100, 3>>, <<1, 4, 8, 1>> }
CropSizes == { <<50, 50>>, <<2, 3>> }

NoCall == [op |-> "none", box |-> NoBox, image |-> NULL, factor |-> <<>>,
           cropSize |-> <<>>, retBox |-> NoBox, ret |-> NULL, allocd |-> {},
           disposed |-> {}, threw |-> FALSE, before |-> <<>>, crops |-> <<>>,
           explicit |-> {}]

\* the record of a finished call: its arguments, what it returned, the heap
\* it started from and the context m it ended in
Done(op, box, image, factor, cropSize, before, m, retBox, ret, explicit) ==
  [op |-> op, box |-> box, image |-> image, factor |-> factor, cropSize |-> cropSize,
   retBox |-> retBox, ret |-> ret, allocd |-> m.allocd, disposed |-> m.disposed,
   threw |-> m.threw, before |-> before, crops |-> m.crops, explicit |-> explicit]

Init ==
  /\ heap = <<>>
  /\ boxes = {}
  /\ made = 0
  /\ lineage = {}
  /\ last = NoCall
  /\ calls = 0

\* the caller allocates a tensor of its own
CallerAlloc(h, val) == Append(h, Cell(val, Shape2(val), FALSE))

\* the caller builds the combined buffer, and start and end buffers when
\* sp and ep are not <<>>, and calls createBox
CreateBox ==
  /\ calls < MaxCalls
  /\ made < MaxBoxes
  /\ made' = made + 1
  /\ \E se \in Combineds, sp \in {<<>>} \cup Starts, ep \in {<<>>} \cup Ends :
       LET h1 == CallerAlloc(heap, Row(se))
           seId == Len(h1)
           h2 == IF sp = <<>> THEN h1 ELSE CallerAlloc(h1, Row(sp))
           spId == IF sp = <<>> THEN NULL ELSE Len(h2)
           h3 == IF ep = <<>> THEN h2 ELSE CallerAlloc(h2, Row(ep))
           epId == IF ep = <<>> THEN NULL ELSE Len(h3)
       IN  \E r \in {createBox(Enter(h3), seId, spId, epId)} :
           /\ heap' = r.m.heap
           /\ boxes' = boxes \cup BoxSet(r.box)
           /\ lineage' = IF sp = <<>> /\ ep = <<>> THEN lineage \cup BoxSet(r.box) ELSE lineage
           /\ last' = Done("createBox", NoBox, NULL, <<>>, <<>>, h3, r.m, r.box, NULL,
                           {seId, spId, epId} \ {NULL})
  /\ calls' = calls + 1

\* the caller builds a Box by hand, possibly leaving fields out
ExternalBox ==
  /\ calls < MaxCalls
  /\ made < MaxBoxes
  /\ made' = made + 1
  /\ \E hasSe \in BOOLEAN, hasSp \in BOOLEAN, hasEp \in BOOLEAN :
       LET h1 == IF hasSe THEN CallerAlloc(heap, Row(<<1, 2, 3, 4>>)) ELSE heap
           seId == IF hasSe THEN Len(h1) ELSE NULL
           h2 == IF hasSp THEN CallerAlloc(h1, Row(<<1, 2>>)) ELSE h1
           spId == IF hasSp THEN Len(h2) ELSE NULL
           h3 == IF hasEp THEN CallerAlloc(h2, Row(<<3, 4>>)) ELSE h2
           epId == IF hasEp THEN Len(h3) ELSE NULL
       IN  /\ heap' = h3
           /\ boxes' = boxes \cup {Box(seId, spId, epId)}
  /\ last' = NoCall
  /\ calls' = calls + 1
  /\ UNCHANGED lineage

ScaleBoxCoordinates ==
  /\ calls < MaxCalls
  /\ UNCHANGED made
  /\ \E b \in boxes, f \in ScaleFactors :
       \E r \in {scaleBoxCoordinates(Enter(heap), b, f)} :
           /\ heap' = r.m.heap
           /\ boxes' = boxes \cup BoxSet(r.box)
           /\ lineage' = IF b \in lineage THEN lineage \cup BoxSet(r.box) ELSE lineage
           /\ last' = Done("scaleBoxCoordinates", <<b>>, NULL, f, <<>>, heap, r.m, r.box,
                           NULL, {})
  /\ calls' = calls + 1

EnlargeBox ==
  /\ calls < MaxCalls
  /\ UNCHANGED made
  /\ \E b \in boxes, f \in EnlargeFactors :
       \E r \in {enlargeBox(Enter(heap), b, f)} :
           /\ heap' = r.m.heap
           /\ boxes' = boxes \cup BoxSet(r.box)
           /\ lineage' = IF b \in lineage THEN lineage \cup BoxSet(r.box) ELSE lineage
           /\ last' = Done("enlargeBox", <<b>>, NULL,
                           IF f = <<>> THEN <<DefaultFactor>> ELSE f, <<>>, heap, r.m,
                           r.box, NULL, {})
  /\ calls' = calls + 1

\* the caller builds the image and calls cutBoxFromImageAndResize
CutBoxFromImageAndResize ==
  /\ calls < MaxCalls
  /\ \E b \in boxes, shape \in ImageShapes, cropSize \in CropSizes :
       LET h1 == Append(heap, Cell(<<>>, shape, FALSE))
           image == Len(h1)
       IN  \E r \in {cutBoxFromImageAndResize(Enter(h1), b, image, cropSize)} :
           /\ heap' = r.m.heap
           /\ last' = Done("cutBoxFromImageAndResize", <<b>>, image, <<>>, cropSize, h1,
                           r.m, NoBox, r.ret, {image})
  /\ calls' = calls + 1
  /\ UNCHANGED <<boxes, lineage, made>>

DisposeBox ==
  /\ calls < MaxCalls
  /\ \E box \in {NoBox} \cup { <<b>> : b \in boxes } :
       \E m \in {disposeBox(Enter(heap), box)} :
           /\ heap' = m.heap
           /\ last' = Done("disposeBox", box, NULL, <<>>, <<>>, heap, m, NoBox, NULL, {})
  /\ calls' = calls + 1
  /\ UNCHANGED <<boxes, lineage, made>>

Next ==
  \/ CreateBox
  \/ ExternalBox
  \/ ScaleBoxCoordinates
  \/ EnlargeBox
  \/ CutBoxFromImageAndResize
  \/ DisposeBox

Spec == Init /\ [][Next]_vars

-----------------------------------------------------------------------------
(* Properties *)

Transforms == {"scaleBoxCoordinates", "enlargeBox"}

\* the tensors the last call returned
Returned == BoxTensors(last.retBox) \cup (IF last.ret = NULL THEN {} ELSE {last.ret})

\* the [1, 4] combined buffer of Box b holds its start and end points in order
Consistent(b) ==
  /\ b.startEndTensor # NULL /\ b.startPoint # NULL /\ b.endPoint # NULL
  /\ Len(heap[b.startEndTensor].val) = 1
  /\ Len(heap[b.startPoint].val) = 1
  /\ Len(heap[b.endPoint].val) = 1
  /\ heap[b.startEndTensor].val[1] = heap[b.startPoint].val[1] \o heap[b.endPoint].val[1]

\* the coordinates of the input Box of the last call, as the call found them
InStart == last.before[last.box[1].startPoint].val[1]
InEnd == last.before[last.box[1].endPoint].val[1]
\* the coordinates of the Box the last call returned
OutStart == heap[last.retBox[1].startPoint].val[1]
OutEnd == heap[last.retBox[1].endPoint].val[1]
OutCombined == heap[last.retBox[1].startEndTensor].val[1]

RLe(a, b) == a[1] * b[2] <= b[1] * a[2]
Half(a) == RDiv(a, Num(2))
CenterOf(s, e, i) == RAdd(s[i], Half(RSub(e[i], s[i])))
SizeOf(s, e, i) == RAbs(RSub(e[i], s[i]))
NonNeg(a) == RLe(Num(0), a)
Ordered(s, e) == RLe(s[1], e[1]) /\ RLe(s[2], e[2])

\* C1: when scaleBoxCoordinates, enlargeBox or cutBoxFromImageAndResize
\* returns or throws, every tensor the call allocated is a tensor of the
\* returned value or has been disposed.
C1_NoLeakedTemporaries ==
  last.op \in Transforms \cup {"cutBoxFromImageAndResize"} =>
    \A id \in last.allocd : id \in Returned \/ ~heap[id].live

\* C2 as stated: every tensor a call disposes is one box.ts allocated; a
\* tensor the caller supplied is never disposed.
C2_ReleasesOnlyOwnBuffers ==
  \A id \in last.disposed : heap[id].byCore

\* C2 as amended: createBox, scaleBoxCoordinates, enlargeBox and
\* cutBoxFromImageAndResize dispose only tensors they allocated in the same
\* call, and every tensor live before such a call is live after it;
\* disposeBox disposes only tensors of the Box it is given, whoever allocated
\* them.
C2_OnlyDisposeBoxReleasesInputs ==
  /\ last.op # "disposeBox" =>
       /\ last.disposed \subseteq last.allocd
       /\ \A id \in DOMAIN last.before : last.before[id].live => heap[id].live
  /\ last.op = "disposeBox" => last.disposed \subseteq BoxTensors(last.box)

\* disposeBox has disposed a tensor that the caller allocated
C2_Witness ==
  /\ last.op = "disposeBox"
  /\ \E id \in last.disposed : ~heap[id].byCore /\ last.before[id].live /\ ~heap[id].live

\* C3 as stated: the Box createBox returns is consistent, whether or not
\* start and end buffers were given.
C3_CreateBoxConsistent ==
  (last.op = "createBox" /\ last.retBox # NoBox) => Consistent(last.retBox[1])

\* C3 as amended: a start or end point that createBox derives is the first
\* two, respectively last two, coordinates of the combined buffer; one that
\* the caller gives is stored as it is.  So the Box is consistent exactly
\* when every point given equals the matching half of the combined buffer,
\* and always when only the combined buffer is given.
C3_ConsistentIffGivenPointsMatch ==
  (last.op = "createBox" /\ last.retBox # NoBox) =>
    LET b == last.retBox[1]
        se == heap[b.startEndTensor].val[1]
        startGiven == b.startPoint \in last.explicit
        endGiven == b.endPoint \in last.explicit
    IN  /\ ~startGiven => heap[b.startPoint].val = << <<se[1], se[2]>> >>
        /\ ~endGiven => heap[b.endPoint].val = << <<se[3], se[4]>> >>
        /\ Consistent(b) <=>
             /\ startGiven => heap[b.startPoint].val = << <<se[1], se[2]>> >>
             /\ endGiven => heap[b.endPoint].val = << <<se[3], se[4]>> >>

\* createBox was given start and end buffers that match the combined buffer,
\* and createBox was given the combined buffer alone
C3_Witness ==
  /\ last.op = "createBox"
  /\ last.retBox # NoBox
  /\ Consistent(last.retBox[1])
  /\ Cardinality(last.explicit) = 3
  /\ heap[last.retBox[1].startPoint].val = << <<Num(1), Num(2)>> >>

\* C4: every Box made by createBox from a combined buffer alone, and every
\* Box that scaleBoxCoordinates and enlargeBox make from such a Box in any
\* number of steps, is consistent.
C4_LineageConsistent ==
  \A b \in lineage : Consistent(b)

\* enlargeBox has returned a Box made from the result of an earlier transform
C4_Witness ==
  /\ last.op = "enlargeBox"
  /\ last.retBox # NoBox
  /\ last.retBox[1] \in lineage
  /\ heap[last.box[1].startEndTensor].byCore
  /\ OutStart # OutEnd

\* C5: scaleBoxCoordinates and enlargeBox leave every tensor of the input Box
\* as it was (as live as before, with the same value), and the Box returned
\* is made of three tensors, none of them a tensor of the input Box.
C5_InputUntouched ==
  last.op \in Transforms =>
    /\ \A id \in BoxTensors(last.box) : heap[id] = last.before[id]
    /\ ~last.threw =>
         /\ Cardinality(BoxTensors(last.retBox)) = 3
         /\ BoxTensors(last.retBox) \cap BoxTensors(last.box) = {}
         /\ \A id \in BoxTensors(last.retBox) : heap[id].live

\* a transform has returned a Box made from a Box with three live tensors
C5_Witness ==
  /\ last.op \in Transforms
  /\ ~last.threw
  /\ Cardinality(BoxTensors(last.box)) = 3
  /\ \A id \in BoxTensors(last.box) : heap[id].live
  /\ OutStart # InStart

\* C6: for a factor f >= 0, the Box enlargeBox returns has the center of the
\* input and f times its size: newStart = center - size * f / 2 and
\* newEnd = center + size * f / 2 on each axis.
C6_EnlargeKeepsCenterScalesSize ==
  (last.op = "enlargeBox" /\ ~last.threw /\ NonNeg(last.factor[1])) =>
    \A i \in 1..2 :
      LET f == last.factor[1]
          center == CenterOf(InStart, InEnd, i)
          size == SizeOf(InStart, InEnd, i)
      IN  /\ CenterOf(OutStart, OutEnd, i) = center
          /\ SizeOf(OutStart, OutEnd, i) = RMul(f, size)
          /\ OutStart[i] = RSub(center, Half(RMul(size, f)))
          /\ OutEnd[i] = RAdd(center, Half(RMul(size, f)))

\* enlargeBox with factor 2 on start [10, 20], end [30, 50] has returned
\* start [0, 5], end [40, 65]
C6_Witness ==
  /\ last.op = "enlargeBox"
  /\ ~last.threw
  /\ last.factor = <<Num(2)>>
  /\ InStart = <<Num(10), Num(20)>> /\ InEnd = <<Num(30), Num(50)>>
  /\ OutStart = <<Num(0), Num(5)>> /\ OutEnd = <<Num(40), Num(65)>>

\* C7: disposeBox does nothing and does not throw when the Box or its
\* startPoint is absent; in every other case it disposes exactly
\* startEndTensor, startPoint and endPoint of the Box.
C7_DisposeBoxGuard ==
  last.op = "disposeBox" =>
    IF last.box = NoBox \/ last.box[1].startPoint = NULL
    THEN ~last.threw /\ last.disposed = {} /\ heap = last.before
    ELSE /\ ~last.threw
         /\ last.disposed = {last.box[1].startEndTensor, last.box[1].startPoint,
                             last.box[1].endPoint}
         /\ NULL \notin last.disposed
         /\ \A id \in DOMAIN heap : heap[id].live = (last.before[id].live /\ id \notin last.disposed)

\* C8: a call of cutBoxFromImageAndResize that returns has invoked the crop
\* primitive once, on the image given, with the one rectangle
\* [y0/height, x0/width, y1/height, x1/width], batch index 0 and the crop size
\* given, and has returned the primitive's result, of shape
\* [1, cropHeight, cropWidth, channels].
C8_CropInvocation ==
  (last.op = "cutBoxFromImageAndResize" /\ ~last.threw) =>
    LET xyxy == last.before[last.box[1].startEndTensor].val[1]
        shape == heap[last.image].shape
        height == Num(shape[2])
        width == Num(shape[3])
    IN  /\ Len(last.crops) = 1
        /\ last.crops[1].image = last.image
        /\ last.crops[1].rects = << << RDiv(xyxy[2], height), RDiv(xyxy[1], width),
                                      RDiv(xyxy[4], height), RDiv(xyxy[3], width) >> >>
        /\ last.crops[1].boxInd = <<0>>
        /\ last.crops[1].cropSize = last.cropSize
        /\ last.ret = last.crops[1].result
        /\ heap[last.ret].live
        /\ heap[last.ret].shape = <<1, last.cropSize[1], last.cropSize[2], shape[4]>>

\* a box that is not square has been cut from an image that is not square
C8_Witness ==
  /\ last.op = "cutBoxFromImageAndResize"
  /\ ~last.threw
  /\ last.before[last.box[1].startEndTensor].val = Row(<<10, 20, 30, 50>>)
  /\ heap[last.image].shape = <<1, 4, 8, 1>>
  /\ heap[last.ret].shape = <<1, 2, 3, 1>>

\* C9: the Box scaleBoxCoordinates returns has startPoint
\* [start.x * fx, start.y * fy], endPoint [end.x * fx, end.y * fy] and
\* startEndTensor those four values in that order.
C9_ScaleMultipliesPerAxis ==
  (last.op = "scaleBoxCoordinates" /\ ~last.threw) =>
    LET fx == last.factor[1]
        fy == last.factor[2]
    IN  /\ OutStart = <<RMul(InStart[1], fx), RMul(InStart[2], fy)>>
        /\ OutEnd = <<RMul(InEnd[1], fx), RMul(InEnd[2], fy)>>
        /\ OutCombined = <<RMul(InStart[1], fx), RMul(InStart[2], fy),
                           RMul(InEnd[1], fx), RMul(InEnd[2], fy)>>
        /\ Len(heap[last.retBox[1].startPoint].val) = 1
        /\ Len(heap[last.retBox[1].endPoint].val) = 1
        /\ Len(heap[last.retBox[1].startEndTensor].val) = 1

\* scaleBoxCoordinates has scaled the two axes by different factors
C9_Witness ==
  /\ last.op = "scaleBoxCoordinates"
  /\ ~last.threw
  /\ last.factor = <<Rat(1, 2), Num(3)>>
  /\ InStart = <<Num(1), Num(2)>> /\ InEnd = <<Num(3), Num(4)>>
  /\ OutCombined = <<Rat(1, 2), Num(6), Rat(3, 2), Num(12)>>

\* C10 as stated: from an ordered Box, scaleBoxCoordinates and enlargeBox
\* return an ordered Box, whatever the factor.
C10_TransformsKeepOrder ==
  (last.op \in Transforms /\ ~last.threw /\ Ordered(InStart, InEnd)) =>
    Ordered(OutStart, OutEnd)

\* C10 as amended: from an ordered Box, scaleBoxCoordinates with factors
\* fx >= 0 and fy >= 0, and enlargeBox with a factor >= 0, return an ordered
\* Box.
C10_NonNegativeFactorsKeepOrder ==
  (/\ last.op \in Transforms
   /\ ~last.threw
   /\ Ordered(InStart, InEnd)
   /\ \A k \in 1..Len(last.factor) : NonNeg(last.factor[k])) =>
    Ordered(OutStart, OutEnd)

\* a transform with factors >= 0 has been applied to the ordered result of an
\* earlier transform, and the Box is larger on one axis at least
C10_Witness ==
  /\ last.op \in Transforms
  /\ ~last.threw
  /\ Ordered(InStart, InEnd)
  /\ \A k \in 1..Len(last.factor) : NonNeg(last.factor[k])
  /\ last.box[1].startEndTensor # NULL
  /\ heap[last.box[1].startEndTensor].byCore
  /\ OutStart # OutEnd

====
